---- MODULE Spec2Model ----
(***************************************************************************)
(* State machine of src/src/App.jsx (component App): the filter vector,    *)
(* the debounced list refresh, the upload, star, delete and detail-view    *)
(* handlers, with every remote call split at its await into an "issue"     *)
(* step and a "response" step.  React state lives in the variables named   *)
(* after the useState hooks; the values an async handler closed over when  *)
(* it was started travel with its in-flight request.                       *)
(*                                                                         *)
(* activeTab is not a variable: switching tabs is always possible and      *)
(* writes nothing else, so a handler is enabled whenever some tab renders  *)
(* its trigger in the current state.                                       *)
(***************************************************************************)
EXTENDS Integers, Sequences, FiniteSets, TLC

\* ------------------------------------------------------------------ bounds
\* number of user actions in one run (filter writes, file selections, clicks
\* on star, delete, view and close)
MaxActions == 3
\* bound: user steps in the runs that check liveness of the loading flag
LiveActions == 2

\* ------------------------------------------------------- program constants
\* setTimeout(..., 500)
Debounce == 500
\* granularity of the clock, in ms: two steps per debounce window
TickMs == Debounce \div 2

\* ------------------------------------------------------------ value spaces
\* free text of the search box: nothing, and a text with a space and an ampersand
Queries == {"", "r & d"}
Departments == {"all", "operations"}
DocTypes == {"all-types", "invoice"}
Ids == {"d1", "d2"}
FailureKinds == {"http", "transport"}
\* messages are sequences of text pieces (template literals keep their parts)
NoError == << >>
FetchErrorMsg == <<"Could not load documents. Please try again later.">>
\* message of the TypeError a rejected fetch() throws
NetworkErrorMsg == "Failed to fetch"
DeleteFailedMsg == "Failed to delete the document."
StarFailedMsg == "Failed to update document."
UploadFailedMsg == "File upload failed"
\* error texts an upload error body may carry ("" stands for a body without one)
ServerErrors == {"", "Unsupported file type"}
Files == {"none", "report.pdf"}
\* titles an upload response may report
UploadTitles == {"Q3 Report"}

Title(id) == IF id = "d1" THEN "Circular 12" ELSE "Q3 Report"
Doc(id, s) == [_id |-> id, title |-> Title(id), starred |-> s]
NoDoc == [_id |-> "null", title |-> "", starred |-> FALSE]

\* the response bodies {documents, pagination: {total}} the remote store may
\* answer with: pages of length 0, 1 and 2 over two records, one record seen
\* both starred and not starred; the total counts the matches of all pages, so
\* it may exceed the length of the page it comes with
Responses ==
  { [documents |-> << >>, total |-> 0],
    [documents |-> <<Doc("d2", FALSE)>>, total |-> 2],
    [documents |-> <<Doc("d1", FALSE), Doc("d2", FALSE)>>, total |-> 2],
    [documents |-> <<Doc("d1", TRUE), Doc("d2", FALSE)>>, total |-> 3] }

VARIABLES
  searchQuery,        \* useState("")
  selectedDepartment, \* useState("all")
  selectedDocType,    \* useState("all-types")
  documents,          \* useState([])
  totalDocuments,     \* useState(0)
  loading,            \* useState(true)
  error,              \* useState(null)
  viewingDocument,    \* useState(null)
  timers,             \* pending setTimeout callbacks of the debounce effect
  refreshes,          \* GET /api/documents requests in flight
  uploads,            \* POST /api/documents/upload requests in flight
  deletes,            \* DELETE /api/documents/:id requests in flight
  stars,              \* PUT /api/documents/:id requests in flight
  semantic,           \* SearchContent: its useState hooks and its requests in flight
  acts,               \* number of user actions taken so far
  last,               \* history: the step just taken, its inputs, its alert
  burst,              \* history: clocks and refresh count of the current write burst
  expected,           \* history: the list of the last refresh with the confirmations since
  trip,               \* history: two successive star toggles on one record
  pair,               \* history: two mutations of different records in flight together
  source,             \* history: the filter vector of the request whose response filled the list
  crossed,            \* history: the mutations in flight that a refresh response overtook
  twin,               \* history: two star toggles on one record in flight together
  loaded              \* history: a refresh response has been processed

store == <<documents, totalDocuments>>
filter == <<searchQuery, selectedDepartment, selectedDocType>>
flight == <<refreshes, uploads, deletes, stars>>
history == <<last, burst, expected, trip, pair, source, crossed, twin, loaded>>
vars == <<searchQuery, selectedDepartment, selectedDocType, documents,
          totalDocuments, loading, error, viewingDocument, timers, refreshes,
          uploads, deletes, stars, semantic, acts, last, burst, expected, trip, pair,
          source, crossed, twin, loaded>>

\* ---------------------------------------------------------------- helpers
Min(a, b) == IF a < b THEN a ELSE b
SeqIds(s) == {s[i]._id : i \in 1..Len(s)}
Vector == [query |-> searchQuery, department |-> selectedDepartment, type |-> selectedDocType]
Store == [documents |-> documents, totalDocuments |-> totalDocuments]
Frame == [documents |-> documents, totalDocuments |-> totalDocuments,
          vector |-> Vector, loading |-> loading, error |-> error]

\* Array.prototype.filter(doc => doc._id !== docId)
RECURSIVE FilterOut(_, _)
FilterOut(s, docId) ==
  IF s = << >> THEN << >>
  ELSE IF Head(s)._id # docId THEN <<Head(s)>> \o FilterOut(Tail(s), docId)
       ELSE FilterOut(Tail(s), docId)

\* Array.prototype.map(doc => doc._id === id ? {...doc, starred} : doc)
MapStar(s, id, starred) ==
  [i \in 1..Len(s) |-> IF s[i]._id = id THEN [s[i] EXCEPT !.starred = starred] ELSE s[i]]

\* every axis sent, sentinel or not
SerializeAll(v) ==
  <<<<"search", v.query>>, <<"department", v.department>>, <<"type", v.type>>>>

\* URLSearchParams built by fetchDocuments: name/value pairs in append order
Serialize(v) ==
  (IF v.query # "" THEN <<<<"search", v.query>>>> ELSE << >>)
  \o (IF v.department # "all" THEN <<<<"department", v.department>>>> ELSE << >>)
  \o (IF v.type # "all-types" THEN <<<<"type", v.type>>>> ELSE << >>)

\* the characters of the texts that travel in a request
Chars(text) ==
  CASE text = "" -> << >>
    [] text = "r & d" -> <<"r", " ", "&", " ", "d">>
    [] text = "all" -> <<"a", "l", "l">>
    [] text = "operations" -> <<"o", "p", "e", "r", "a", "t", "i", "o", "n", "s">>
    [] text = "all-types" -> <<"a", "l", "l", "-", "t", "y", "p", "e", "s">>
    [] text = "invoice" -> <<"i", "n", "v", "o", "i", "c", "e">>
    [] text = "search" -> <<"s", "e", "a", "r", "c", "h">>
    [] text = "department" -> <<"d", "e", "p", "a", "r", "t", "m", "e", "n", "t">>
    [] text = "type" -> <<"t", "y", "p", "e">>

\* application/x-www-form-urlencoded byte serializer: a space becomes "+",
\* letters, digits and * - . _ stay, every other byte is percent-encoded
PercentCode(c) ==
  CASE c = " " -> <<"+">>
    [] c = "&" -> <<"%", "2", "6">>
    [] c = "=" -> <<"%", "3", "D">>
    [] c = "+" -> <<"%", "2", "B">>
    [] c = "%" -> <<"%", "2", "5">>
    [] OTHER -> <<c>>

RECURSIVE UrlEncode(_)
UrlEncode(cs) == IF cs = << >> THEN << >> ELSE PercentCode(Head(cs)) \o UrlEncode(Tail(cs))

\* URLSearchParams.prototype.toString(): name=value pairs joined by "&"
RECURSIVE QueryString(_)
QueryString(pairs) ==
  IF pairs = << >> THEN << >>
  ELSE UrlEncode(Chars(Head(pairs)[1])) \o <<"=">> \o UrlEncode(Chars(Head(pairs)[2]))
       \o (IF Tail(pairs) = << >> THEN << >> ELSE <<"&">> \o QueryString(Tail(pairs)))

\* requests in flight are told apart by a slot number: the least one that no
\* request of the same kind in flight holds
FreeRid(S) == CHOOSE k \in 1..(Cardinality(S) + 1) :
  /\ \A r \in S : r.rid # k
  /\ \A j \in 1..(k - 1) : \E r \in S : r.rid = j

\* one more user action fits the run
UserAction ==
  /\ acts < MaxActions
  /\ acts' = acts + 1

\* ------------------------------------------------------- SearchContent
\* SearchContent is a component declared inside App, so every render of App
\* gives it a new type and React mounts a new instance with fresh hooks; a
\* response that comes back for an instance no longer mounted calls setters
\* React ignores
AppState == <<searchQuery, selectedDepartment, selectedDocType, documents,
              totalDocuments, loading, error, viewingDocument>>
NoSemantic == [loading |-> FALSE, error |-> NoError, results |-> << >>]
Unmount(sem) == [local |-> NoSemantic, flight |-> {[r EXCEPT !.live = FALSE] : r \in sem.flight}]

\* App renders again when one of its hooks gets a different value; other is
\* TRUE for a step that stores a new array or is taken on another tab than
\* the search tab
AppRenders(other) ==
  semantic' = IF other \/ AppState' # AppState THEN Unmount(semantic) ELSE semantic

\* ---------------------------------------------------------------- history
\* The history variables record what happened; no action reads them.

\* a write 500 ms or more after the previous one starts a new burst of writes;
\* age is the time since the last write, span the time since the first write
\* of the burst, refreshes the number of refreshes its timers issued
BurstNext(ev) ==
  IF ev.type = "write"
  THEN IF burst.age >= Debounce
       THEN [age |-> 0, span |-> 0, refreshes |-> 0, writes |-> 1]
       ELSE [burst EXCEPT !.age = 0, !.writes = Min(@ + 1, 2)]
  ELSE IF ev.type = "tick"
  THEN [burst EXCEPT !.age = Min(@ + TickMs, Debounce),
                     !.span = Min(@ + TickMs, 2 * Debounce)]
  ELSE IF ev.type = "timerFire"
  THEN [burst EXCEPT !.refreshes = Min(@ + 1, 2), !.span = 0, !.writes = 0]
  ELSE burst

\* the list of the most recent refresh response, with the star and delete
\* confirmations processed since applied to it in the order they were
\* processed; a failed refresh empties the list
ExpectedNext(ev) ==
  IF ev.type = "refreshOk" THEN ev.data.documents
  ELSE IF ev.type = "refreshFail" THEN << >>
  ELSE IF ev.type = "deleteOk" THEN FilterOut(expected, ev.id)
  ELSE IF ev.type = "starOk" THEN MapStar(expected, ev.id, ev.starred)
  ELSE expected

NoTrip == [phase |-> 0]
\* phases of a round trip on record id: 1 first toggle in flight, 2 first
\* confirmed, 3 second in flight, 4 second confirmed.  orig is the flag before
\* the first toggle, old the flag when the toggle in flight was issued.  A
\* refresh response, a failed toggle or another toggle on the same record
\* while one is in flight ends the round trip.
TripNext(ev) ==
  IF trip.phase = 4 THEN NoTrip
  ELSE IF ev.type \in {"refreshOk", "refreshFail"} THEN NoTrip
  ELSE IF ev.type = "starIssue"
  THEN IF trip.phase = 0
       THEN IF \E r \in stars : r.id = ev.id THEN NoTrip
            ELSE [phase |-> 1, id |-> ev.id, orig |-> ~ev.starred, old |-> ~ev.starred]
       ELSE IF ev.id # trip.id THEN trip
       ELSE IF trip.phase = 2 THEN [trip EXCEPT !.phase = 3, !.old = ~ev.starred]
       ELSE NoTrip
  ELSE IF ev.type = "starOk" /\ trip.phase \in {1, 3} /\ ev.id = trip.id
  THEN [trip EXCEPT !.phase = @ + 1]
  ELSE IF ev.type = "starFail" /\ trip.phase \in {1, 3} /\ ev.id = trip.id
  THEN NoTrip
  ELSE trip

NoPair == [phase |-> 0]
Mutations == {[kind |-> "star", id |-> r.id, starred |-> r.starred, documents |-> << >>] : r \in stars}
             \cup {[kind |-> "delete", id |-> r.docId, starred |-> FALSE, documents |-> r.documents] : r \in deletes}
\* the effect of one mutation on a list: a delete removes its own record, a
\* star sets its own record's flag
Effect(m, s) == IF m.kind = "star" THEN MapStar(s, m.id, m.starred) ELSE FilterOut(s, m.id)
\* phases of a pair: 1 both in flight, 2 one confirmed, 3 both confirmed.  The
\* pair starts when a mutation is issued while exactly one other, on another
\* record, is in flight and the Store has not changed since that one was
\* issued; want is the Store content with both effects applied.  A refresh
\* response, a failure or any further mutation ends the pair.
PairNext(ev) ==
  IF pair.phase = 3 THEN NoPair
  ELSE IF ev.type \in {"starIssue", "deleteIssue"}
  THEN IF /\ pair.phase = 0
          /\ Cardinality(stars) + Cardinality(deletes) = 1
          /\ \A m \in Mutations : m.id # ev.id /\ (m.kind = "delete" => m.documents = documents)
       THEN LET m == CHOOSE m \in Mutations : TRUE
                n == [kind |-> IF ev.type = "starIssue" THEN "star" ELSE "delete",
                      id |-> ev.id, starred |-> ev.starred, documents |-> << >>]
            IN [phase |-> 1, ids |-> {m.id, n.id}, want |-> Effect(n, Effect(m, documents))]
       ELSE NoPair
  ELSE IF ev.type \in {"starOk", "deleteOk"} /\ pair.phase \in {1, 2}
  THEN [pair EXCEPT !.phase = @ + 1]
  ELSE IF ev.type \in {"refreshOk", "refreshFail", "starFail", "deleteFail", "starOk", "deleteOk"}
  THEN NoPair
  ELSE pair

NoSource == [query |-> "?", department |-> "?", type |-> "?"]
\* the vector the list was fetched for: the one the request of the most
\* recent refresh response was built from; a failed refresh leaves no list
SourceNext(ev) ==
  IF ev.type = "refreshOk" THEN ev.vec
  ELSE IF ev.type = "refreshFail" THEN NoSource
  ELSE source

\* the star and delete requests, by kind and slot, that were in flight when
\* a successful refresh response was processed and have not been answered yet
CrossedNext(ev) ==
  IF ev.type = "refreshOk"
  THEN {<<"delete", r.rid>> : r \in deletes} \cup {<<"star", r.rid>> : r \in stars}
  ELSE IF ev.type \in {"deleteOk", "deleteFail"} THEN crossed \ {<<"delete", ev.rid>>}
  ELSE IF ev.type \in {"starOk", "starFail"} THEN crossed \ {<<"star", ev.rid>>}
  ELSE crossed

NoTwin == [phase |-> 0]
\* phases of two toggles on record id issued with no write of the list in
\* between: 1 first in flight, 2 both in flight, 3 one confirmed, 4 both
\* confirmed.  value is the flag the first request carries, same tells whether
\* the second carries it too.  A failure of one of them or a third toggle on
\* the record ends the tracking.
TwinNext(ev) ==
  IF twin.phase = 4 THEN NoTwin
  ELSE IF ev.type = "starIssue"
  THEN IF twin.phase = 0
       THEN IF \E r \in stars : r.id = ev.id THEN NoTwin
            ELSE [phase |-> 1, id |-> ev.id, value |-> ev.starred, same |-> TRUE]
       ELSE IF ev.id # twin.id THEN twin
       ELSE IF twin.phase = 1 THEN [twin EXCEPT !.phase = 2, !.same = (ev.starred = twin.value)]
       ELSE NoTwin
  ELSE IF twin.phase = 1 /\ ev.type \in {"refreshOk", "refreshFail", "deleteOk", "starOk"}
  THEN NoTwin
  ELSE IF twin.phase \in {2, 3} /\ ev.type = "starOk" /\ ev.id = twin.id
  THEN [twin EXCEPT !.phase = @ + 1]
  ELSE IF twin.phase \in {1, 2, 3} /\ ev.type = "starFail" /\ ev.id = twin.id
  THEN NoTwin
  ELSE twin

History(ev) ==
  /\ last' = ev
  /\ twin' = TwinNext(ev)
  /\ loaded' = (loaded \/ ev.type \in {"refreshOk", "refreshFail"})
  /\ crossed' = CrossedNext(ev)
  /\ source' = SourceNext(ev)
  /\ burst' = BurstNext(ev)
  /\ expected' = ExpectedNext(ev)
  /\ trip' = TripNext(ev)
  /\ pair' = PairNext(ev)

\* ------------------------------------------------------- debounce effect
TimerDue == \E t \in timers : t.elapsed >= Debounce

\* a cleanup that leaves the pending timer running
KeepTimeout(ts) == ts

\* cleanup of the effect: clearTimeout(debounceTimer), the timer the previous
\* run of the effect scheduled (the only one that can be pending)
ClearTimeout(ts) == {}

\* an effect whose cleanup is never run: the new timer joins the pending one
EffectWithoutCleanup(ts, v) == ts \cup {[elapsed |-> 0, vec |-> v]}

\* the effect re-runs when fetchDocuments changes identity, i.e. when one of
\* its dependencies (the three filter axes) changed: cleanup, then setTimeout
RunEffect(ts, v) == ClearTimeout(ts) \cup {[elapsed |-> 0, vec |-> v]}

\* a state setter called with a new value; a timer that is due runs first
FilterWrite(v, setter) ==
  /\ v # Vector
  /\ ~TimerDue
  /\ UserAction
  /\ searchQuery' = v.query
  /\ selectedDepartment' = v.department
  /\ selectedDocType' = v.type
  /\ timers' = RunEffect(timers, v)
  /\ History([type |-> "write", setter |-> setter, pending |-> refreshes])
  /\ UNCHANGED <<store, viewingDocument, loading, error, flight>>
  /\ AppRenders(FALSE)

SetSearchQuery(q) == FilterWrite([Vector EXCEPT !.query = q], "setSearchQuery")
SetSelectedDepartment(d) == FilterWrite([Vector EXCEPT !.department = d], "setSelectedDepartment")
SetSelectedDocType(t) == FilterWrite([Vector EXCEPT !.type = t], "setSelectedDocType")

\* time passes; a timer that is due runs before time moves on
Tick ==
  /\ ~TimerDue
  /\ timers # {} \/ burst.age < Debounce
  /\ timers' = {[t EXCEPT !.elapsed = @ + TickMs] : t \in timers}
  /\ History([type |-> "tick"])
  /\ UNCHANGED <<store, viewingDocument, filter, loading, error, flight, acts>>
  /\ AppRenders(FALSE)

\* ------------------------------------------------------- fetchDocuments
\* fetchDocuments up to its await: setLoading(true); setError(null); fetch(GET);
\* v is the filter vector the callback closed over
FetchIssue(v) ==
  /\ loading' = TRUE
  /\ error' = NoError
  /\ refreshes' = refreshes \cup {[rid |-> FreeRid(refreshes), params |-> Serialize(v),
                                  url |-> QueryString(Serialize(v)), vec |-> v,
                                  by |-> "timer"]}

\* the setTimeout callback: fetchDocuments()
TimerFire(t) ==
  /\ t.elapsed >= Debounce
  /\ FetchIssue(t.vec)
  /\ timers' = timers \ {t}
  /\ History([type |-> "timerFire", rid |-> FreeRid(refreshes),
              span |-> burst.span, writes |-> burst.writes, scheduled |-> t.vec])
  /\ UNCHANGED <<store, viewingDocument, filter, uploads, deletes, stars, acts>>
  /\ AppRenders(FALSE)

\* the total taken from the length of the page
PageLengthAsTotal(data) == Len(data.documents)

\* setTotalDocuments(data.pagination.total)
RefreshedTotal(data) == data.total

\* a response taken only when it answers the current filter vector
OnlyCurrent(r) == r.vec = Vector

\* whether a response is stored: fetchDocuments holds no token to tell a
\* late response from a current one
Accepted(r) == TRUE

\* no finally clause: loading stays as it is
NoFinally(prev) == prev

\* finally { setLoading(false) }
Finally(prev) == FALSE

\* response.ok: setDocuments(data.documents); setTotalDocuments(...);
\* finally setLoading(false)
RefreshOk(r, data) ==
  /\ documents' = IF Accepted(r) THEN data.documents ELSE documents
  /\ totalDocuments' = IF Accepted(r) THEN RefreshedTotal(data) ELSE totalDocuments
  /\ loading' = Finally(loading)
  /\ refreshes' = refreshes \ {r}
  /\ History([type |-> "refreshOk", rid |-> r.rid, data |-> data, vec |-> r.vec,
              by |-> r.by, over |-> source])
  /\ UNCHANGED <<viewingDocument, filter, error, timers, uploads, deletes, stars, acts>>
  /\ AppRenders(TRUE)

\* a failed request sent again: it stays in flight
Resent(rs, r) == rs

\* the requests in flight after a failure: the catch block sends nothing
Settled(rs, r) == rs \ {r}

\* a failed refresh that leaves the list alone
KeptList(current) == current

\* catch: setDocuments([])
FailedList(current) == << >>

\* !response.ok or fetch rejected: setError(...); setDocuments([]); finally setLoading(false)
RefreshFail(r, kind) ==
  /\ error' = FetchErrorMsg
  /\ documents' = FailedList(documents)
  /\ loading' = Finally(loading)
  /\ refreshes' = Settled(refreshes, r)
  /\ History([type |-> "refreshFail", rid |-> r.rid, total |-> totalDocuments])
  /\ UNCHANGED <<totalDocuments, viewingDocument, filter, timers, uploads, deletes,
                 stars, acts>>
  /\ AppRenders(TRUE)

\* a list rendered whatever the loading and error state
AlwaysVisible == TRUE

\* the document list (and with it the view, star and delete buttons) is
\* rendered only when not loading and without error
ListVisible == ~loading /\ error = NoError
Shown == IF ListVisible THEN {documents[i] : i \in 1..Len(documents)} ELSE {}

\* ------------------------------------------------------ handleFileUpload
\* the upload button of DocumentsContent is disabled while loading; the quick
\* action of DashboardContent, handleQuickAction("upload"), is not
UploadTriggers == {"button", "quickAction"}
TriggerEnabled(trigger) == trigger = "quickAction" \/ ~loading

\* up to the await: if (!file) return; setLoading(true); setError(null); fetch(POST)
HandleFileUpload(trigger, file) ==
  /\ TriggerEnabled(trigger)
  /\ UserAction
  /\ IF file = "none"
     THEN /\ History([type |-> "uploadNoFile"])
          /\ UNCHANGED <<loading, error, uploads>>
     ELSE /\ loading' = TRUE
          /\ error' = NoError
          /\ uploads' = uploads \cup {[rid |-> FreeRid(uploads), vec |-> Vector]}
          /\ History([type |-> "uploadIssue", rid |-> FreeRid(uploads)])
  /\ UNCHANGED <<store, viewingDocument, filter, timers, refreshes, deletes, stars>>
  /\ AppRenders(TRUE)

\* a vector read half from the closure and half from the current state
MixedVector(u) == [u.vec EXCEPT !.query = searchQuery]

\* the filter vector the fetchDocuments called by the upload handler reads:
\* the callback the handler closed over when the upload was started
UploadRefreshVector(u) == u.vec

\* an upload that counts its record into the total
IncrementTotal(prev) == prev + 1

\* the total after an upload response: the handler calls no Store setter
UploadedTotal(prev) == prev

\* response.ok: alert(title); fetchDocuments(); finally setLoading(false)
UploadOk(u, title) ==
  /\ error' = NoError
  /\ totalDocuments' = UploadedTotal(totalDocuments)
  /\ refreshes' = refreshes \cup
       {[rid |-> FreeRid(refreshes), params |-> Serialize(UploadRefreshVector(u)),
         url |-> QueryString(Serialize(UploadRefreshVector(u))),
         vec |-> UploadRefreshVector(u), by |-> "upload"]}
  /\ loading' = FALSE
  /\ uploads' = uploads \ {u}
  /\ History([type |-> "uploadOk", rid |-> u.rid, refresh |-> FreeRid(refreshes),
              pre |-> Store, started |-> u.vec,
              alert |-> <<"Successfully uploaded and processed: ", title>>])
  /\ UNCHANGED <<documents, viewingDocument, filter, timers, deletes, stars, acts>>
  /\ AppRenders(FALSE)

\* the server's text dropped
GenericErrorText(kind, text) == UploadFailedMsg

\* error.message: errData.error || "File upload failed", or the TypeError's
UploadErrorText(kind, text) ==
  IF kind = "transport" THEN NetworkErrorMsg
  ELSE IF text # "" THEN text ELSE UploadFailedMsg

\* catch: setError(...); alert(...); finally setLoading(false)
UploadFail(u, kind, text) ==
  /\ error' = <<"File upload failed: ", UploadErrorText(kind, text)>>
  /\ loading' = FALSE
  /\ uploads' = uploads \ {u}
  /\ History([type |-> "uploadFail", rid |-> u.rid, kind |-> kind,
              text |-> IF kind = "transport" THEN "" ELSE text,
              pre |-> Store, pending |-> refreshes,
              alert |-> <<"File upload failed: ", UploadErrorText(kind, text)>>])
  /\ UNCHANGED <<store, viewingDocument, filter, timers, refreshes, deletes, stars, acts>>
  /\ AppRenders(FALSE)

\* -------------------------------------------------- handleDeleteDocument
\* a gate that lets every answer through
AnyAnswer(answer) == TRUE

\* if (!window.confirm(...)) return
Confirmed(answer) == answer

\* window.confirm, then fetch(DELETE); the handler closes over the documents
\* array of the render in which the button was clicked
HandleDeleteDocument(doc, answer) ==
  /\ doc \in Shown
  /\ UserAction
  /\ IF ~Confirmed(answer)
     THEN /\ History([type |-> "deleteDeclined", id |-> doc._id])
          /\ UNCHANGED deletes
     ELSE /\ deletes' = deletes \cup
               {[rid |-> FreeRid(deletes), docId |-> doc._id, documents |-> documents]}
          /\ History([type |-> "deleteIssue", rid |-> FreeRid(deletes), id |-> doc._id,
                      starred |-> FALSE, answer |-> answer])
  /\ UNCHANGED <<store, viewingDocument, filter, loading, error, timers, refreshes,
                 uploads, stars>>
  /\ AppRenders(TRUE)

\* setDocuments(documents.filter((doc) => doc._id !== docId)): r.documents is
\* the array the handler closed over, current the state when the response arrives
DeletedFrom(r, current) == FilterOut(r.documents, r.docId)

\* a delete that leaves the total alone
KeepTotal(prev) == prev

\* setTotalDocuments(prev => prev - 1)
DecrementTotal(prev) == prev - 1

\* response.ok: setDocuments(...); setTotalDocuments(...); alert
DeleteOk(r) ==
  /\ documents' = DeletedFrom(r, documents)
  /\ totalDocuments' = DecrementTotal(totalDocuments)
  /\ deletes' = deletes \ {r}
  /\ History([type |-> "deleteOk", rid |-> r.rid, id |-> r.docId, pre |-> Store,
              alert |-> <<"Document deleted successfully.">>])
  /\ UNCHANGED <<viewingDocument, filter, loading, error, timers, refreshes,
                 uploads, stars, acts>>
  /\ AppRenders(TRUE)

\* a failed delete that still removes the record
RemovedAnyway(r, current) == FilterOut(current, r.docId)

\* the list a failed delete leaves: the catch block only alerts
DeleteFailed(r, current) == current

\* catch: alert(error.message)
DeleteFail(r, kind) ==
  /\ documents' = DeleteFailed(r, documents)
  /\ deletes' = deletes \ {r}
  /\ History([type |-> "deleteFail", rid |-> r.rid, id |-> r.docId, pre |-> Store,
              pending |-> deletes,
              alert |-> <<IF kind = "transport" THEN NetworkErrorMsg ELSE DeleteFailedMsg>>])
  /\ UNCHANGED <<totalDocuments, viewingDocument, filter, loading, error, timers,
                 refreshes, uploads, stars, acts>>
  /\ AppRenders(FALSE)

\* ---------------------------------------------------- handleStarDocument
\* the flag sent as it is
SameStarredState(doc) == doc.starred

\* const newStarredState = !docToUpdate.starred
NewStarredState(doc) == ~doc.starred

\* up to the await: fetch(PUT, {starred: newStarredState})
HandleStarDocument(doc) ==
  /\ doc \in Shown
  /\ UserAction
  /\ stars' = stars \cup
       {[rid |-> FreeRid(stars), id |-> doc._id, title |-> doc.title,
         starred |-> NewStarredState(doc)]}
  /\ History([type |-> "starIssue", rid |-> FreeRid(stars), id |-> doc._id,
              starred |-> NewStarredState(doc), pre |-> Store])
  /\ UNCHANGED <<store, viewingDocument, filter, loading, error, timers, refreshes,
                 uploads, deletes>>
  /\ AppRenders(TRUE)

\* a confirmation that flips the flag the list holds
Toggled(r, current) ==
  [i \in 1..Len(current) |->
     IF current[i]._id = r.id THEN [current[i] EXCEPT !.starred = ~@] ELSE current[i]]

\* a confirmation that adds the record when the list does not hold it
Upserted(r, current) ==
  IF r.id \in SeqIds(current) THEN MapStar(current, r.id, r.starred)
  ELSE Append(current, Doc(r.id, r.starred))

\* setDocuments((currentDocuments) => currentDocuments.map(...))
StarredIn(r, current) == MapStar(current, r.id, r.starred)

\* response.ok: setDocuments(...); alert
StarOk(r) ==
  /\ documents' = StarredIn(r, documents)
  /\ stars' = stars \ {r}
  /\ History([type |-> "starOk", rid |-> r.rid, id |-> r.id, starred |-> r.starred,
              alert |-> <<"Document \"", r.title, "\" has been ",
                          IF r.starred THEN "starred" ELSE "unstarred", "!">>])
  /\ UNCHANGED <<totalDocuments, viewingDocument, filter, loading, error, timers,
                 refreshes, uploads, deletes, acts>>
  /\ AppRenders(TRUE)

\* the list a failed star leaves: the catch block only alerts
StarFailed(r, current) == current

\* catch: alert(error.message)
StarFail(r, kind) ==
  /\ documents' = StarFailed(r, documents)
  /\ stars' = stars \ {r}
  /\ History([type |-> "starFail", rid |-> r.rid, id |-> r.id, pre |-> Store,
              alert |-> <<IF kind = "transport" THEN NetworkErrorMsg ELSE StarFailedMsg>>])
  /\ UNCHANGED <<totalDocuments, viewingDocument, filter, loading, error, timers,
                 refreshes, uploads, deletes, acts>>
  /\ AppRenders(FALSE)

\* ------------------------------------------------------------ detail view
\* opening a record that also takes it out of the list
ViewAndRemove(doc) ==
  /\ doc \in Shown
  /\ UserAction
  /\ viewingDocument' = doc
  /\ documents' = FilterOut(documents, doc._id)
  /\ History([type |-> "open", id |-> doc._id, pre |-> Frame])
  /\ UNCHANGED <<totalDocuments, filter, loading, error, timers, flight>>
  /\ AppRenders(TRUE)

\* an open record that stays when another one is opened
KeepOpen(current, doc) == IF current = NoDoc THEN doc ELSE current

\* the state setter called with a value: the value replaces the current one
Opened(current, doc) == doc

\* setViewingDocument(doc); the view buttons stay reachable from the keyboard
\* while the modal is open
HandleViewDocument(doc) ==
  /\ doc \in Shown
  /\ UserAction
  /\ viewingDocument' = Opened(viewingDocument, doc)
  /\ History([type |-> "open", id |-> doc._id, doc |-> doc, was |-> viewingDocument._id,
              pre |-> Frame])
  /\ UNCHANGED <<store, filter, loading, error, timers, flight>>
  /\ AppRenders(TRUE)

\* onClose of DocumentViewModal, rendered only while viewingDocument is set
CloseView ==
  /\ viewingDocument # NoDoc
  /\ UserAction
  /\ viewingDocument' = NoDoc
  /\ History([type |-> "close", pre |-> Frame])
  /\ UNCHANGED <<store, filter, loading, error, timers, flight>>
  /\ AppRenders(FALSE)

\* -------------------------------------------------- handleSemanticSearch
\* what the search box may hold when the search is started, and the result
\* lists a response may carry
SemanticTexts == {"  ", "phase 2"}
SemanticResults == {<< >>, <<"d1">>}
BlankQueryMsg == <<"Please enter a search query">>
NoMatchMsg == <<"No matching documents found. Try different search terms.">>
SearchFailedMsg == "Search failed: 500"

\* String.prototype.trim() on the texts of the box
Trimmed(q) == IF q = "  " THEN "" ELSE q

\* a search that raises the shared loading flag
SetLoading(prev) == TRUE

\* the shared loading flag after the search is started: the handler calls
\* the setters of SearchContent only
SearchLoading(prev) == prev

\* the snapshot the search steps are compared with
Pipeline == [frame |-> Frame, timers |-> timers, refreshes |-> refreshes]

\* up to the await: if (!semanticQuery.trim()) { alert; return };
\* setSemanticLoading(true); setSemanticError(null); setSemanticResults([]);
\* fetch(POST).  The button is disabled while semanticLoading, the Enter key
\* of the box is not.
HandleSemanticSearch(q) ==
  /\ UserAction
  /\ IF Trimmed(q) = ""
     THEN /\ semantic' = semantic
          /\ History([type |-> "semanticBlank", pre |-> Pipeline, alert |-> BlankQueryMsg])
     ELSE /\ semantic' =
               [local |-> [loading |-> TRUE, error |-> NoError, results |-> << >>],
                flight |-> semantic.flight \cup
                  {[rid |-> FreeRid(semantic.flight), live |-> TRUE, query |-> q]}]
          /\ History([type |-> "semanticIssue", rid |-> FreeRid(semantic.flight),
                      pre |-> Pipeline])
  /\ loading' = SearchLoading(loading)
  /\ UNCHANGED <<store, viewingDocument, filter, error, timers, flight>>

\* response.ok: setSemanticResults(data.results || []); setSemanticError(...)
\* when there is no result; finally setSemanticLoading(false)
SemanticOk(r, results) ==
  /\ semantic' =
       [local |-> IF r.live
                  THEN [loading |-> FALSE,
                        error |-> IF results = << >> THEN NoMatchMsg ELSE semantic.local.error,
                        results |-> results]
                  ELSE semantic.local,
        flight |-> semantic.flight \ {r}]
  /\ History([type |-> "semanticOk", rid |-> r.rid, pre |-> Pipeline])
  /\ UNCHANGED <<store, viewingDocument, filter, loading, error, timers, flight, acts>>

\* catch: setSemanticError(error.message || ...); finally setSemanticLoading(false)
SemanticFail(r, kind) ==
  /\ semantic' =
       [local |-> IF r.live
                  THEN [semantic.local EXCEPT
                          !.loading = FALSE,
                          !.error = <<IF kind = "transport" THEN NetworkErrorMsg
                                      ELSE SearchFailedMsg>>]
                  ELSE semantic.local,
        flight |-> semantic.flight \ {r}]
  /\ History([type |-> "semanticFail", rid |-> r.rid, pre |-> Pipeline])
  /\ UNCHANGED <<store, viewingDocument, filter, loading, error, timers, flight, acts>>

\* leaving the search tab and coming back: setActiveTab renders App
SwitchTab ==
  /\ semantic # Unmount(semantic)
  /\ semantic' = Unmount(semantic)
  /\ History([type |-> "tab"])
  /\ UNCHANGED <<store, viewingDocument, filter, loading, error, timers, flight, acts>>

\* ---------------------------------------------------------- specification
\* useState(""), useState("all"), useState("all-types")
Unconstrained == [query |-> "", department |-> "all", type |-> "all-types"]

Init ==
  /\ searchQuery = ""
  /\ selectedDepartment = "all"
  /\ selectedDocType = "all-types"
  /\ documents = << >>
  /\ totalDocuments = 0
  /\ loading = TRUE
  /\ error = NoError
  /\ viewingDocument = NoDoc
  /\ timers = {[elapsed |-> 0, vec |-> [query |-> "", department |-> "all", type |-> "all-types"]]}
  /\ refreshes = {}
  /\ uploads = {}
  /\ deletes = {}
  /\ stars = {}
  /\ semantic = [local |-> NoSemantic, flight |-> {}]
  /\ acts = 0
  /\ last = [type |-> "mount"]
  /\ burst = [age |-> 0, span |-> 0, refreshes |-> 0, writes |-> 0]
  /\ expected = << >>
  /\ trip = NoTrip
  /\ pair = NoPair
  /\ source = NoSource
  /\ crossed = {}
  /\ twin = NoTwin
  /\ loaded = FALSE

Next ==
  \/ \E q \in Queries : SetSearchQuery(q)
  \/ \E d \in Departments : SetSelectedDepartment(d)
  \/ \E t \in DocTypes : SetSelectedDocType(t)
  \/ Tick
  \/ \E t \in timers : TimerFire(t)
  \/ \E r \in refreshes, data \in Responses : RefreshOk(r, data)
  \/ \E r \in refreshes, kind \in FailureKinds : RefreshFail(r, kind)
  \/ \E g \in UploadTriggers, f \in Files : HandleFileUpload(g, f)
  \/ \E u \in uploads, title \in UploadTitles : UploadOk(u, title)
  \/ \E u \in uploads, kind \in FailureKinds, text \in ServerErrors : UploadFail(u, kind, text)
  \/ \E doc \in Shown, answer \in BOOLEAN : HandleDeleteDocument(doc, answer)
  \/ \E r \in deletes : DeleteOk(r)
  \/ \E r \in deletes, kind \in FailureKinds : DeleteFail(r, kind)
  \/ \E doc \in Shown : HandleStarDocument(doc)
  \/ \E r \in stars : StarOk(r)
  \/ \E r \in stars, kind \in FailureKinds : StarFail(r, kind)
  \/ \E doc \in Shown : HandleViewDocument(doc)
  \/ CloseView
  \/ \E q \in SemanticTexts : HandleSemanticSearch(q)
  \/ \E r \in semantic.flight, results \in SemanticResults : SemanticOk(r, results)
  \/ \E r \in semantic.flight, kind \in FailureKinds : SemanticFail(r, kind)
  \/ SwitchTab

Spec == Init /\ [][Next]_vars

\* the steps the program takes by itself when every request is answered
\* with success: time passing, the timer, the success responses
SystemOk ==
  \/ Tick
  \/ \E t \in timers : TimerFire(t)
  \/ \E r \in refreshes, data \in Responses : RefreshOk(r, data)
  \/ \E u \in uploads, title \in UploadTitles : UploadOk(u, title)
  \/ \E r \in deletes : DeleteOk(r)
  \/ \E r \in stars : StarOk(r)
  \/ \E r \in semantic.flight, results \in SemanticResults : SemanticOk(r, results)

\* what the user may do
UserNext ==
  \/ \E q \in Queries : SetSearchQuery(q)
  \/ \E d \in Departments : SetSelectedDepartment(d)
  \/ \E t \in DocTypes : SetSelectedDocType(t)
  \/ \E g \in UploadTriggers, f \in Files : HandleFileUpload(g, f)
  \/ \E doc \in Shown, answer \in BOOLEAN : HandleDeleteDocument(doc, answer)
  \/ \E doc \in Shown : HandleStarDocument(doc)
  \/ \E doc \in Shown : HandleViewDocument(doc)
  \/ CloseView
  \/ \E q \in SemanticTexts : HandleSemanticSearch(q)
  \/ SwitchTab

OkNext == UserNext \/ SystemOk

\* every timer runs and every request is answered, with success; the user
\* may stop at any time
FairSpec == Init /\ [][OkNext]_vars /\ WF_vars(SystemOk)

\* the steps that write loading or move a refresh or an upload request: the
\* star, delete, detail view, semantic search and tab steps do neither
LoadRespond ==
  \/ Tick
  \/ \E t \in timers : TimerFire(t)
  \/ \E r \in refreshes, data \in Responses : RefreshOk(r, data)
  \/ \E r \in refreshes, kind \in FailureKinds : RefreshFail(r, kind)
  \/ \E u \in uploads, title \in UploadTitles : UploadOk(u, title)
  \/ \E u \in uploads, kind \in FailureKinds, text \in ServerErrors : UploadFail(u, kind, text)

\* the user's steps among them, at most LiveActions of them
LoadUser ==
  /\ acts < LiveActions
  /\ \/ \E q \in Queries : SetSearchQuery(q)
     \/ \E d \in Departments : SetSelectedDepartment(d)
     \/ \E t \in DocTypes : SetSelectedDocType(t)
     \/ \E g \in UploadTriggers, f \in Files : HandleFileUpload(g, f)

LoadNext == LoadUser \/ LoadRespond

\* every timer runs and every refresh and upload request is answered, with
\* success or failure; the user may stop at any time
LoadSpec == Init /\ [][LoadNext]_vars /\ WF_vars(LoadRespond)

\* ================================================================ claims
\* the starred flag record id has in list s, when it is there
HasFlag(s, id, b) == \A i \in 1..Len(s) : s[i]._id = id => s[i].starred = b

\* bounded shape of the state
TypeOK ==
  /\ Vector \in [query : Queries, department : Departments, type : DocTypes]
  /\ loading \in BOOLEAN
  /\ acts \in 0..MaxActions
  /\ Cardinality(timers) <= 1

\* C1: a burst of filter writes, each less than 500 ms after the previous one,
\* gets exactly one refresh from the debounce timer: none while the timer is
\* pending, one once it has run; the timer runs 500 ms after the last write and
\* its request carries the filter vector as the last write left it.
DebounceSingleRefresh ==
  /\ burst.refreshes = IF timers = {} THEN 1 ELSE 0
  /\ last.type = "timerFire" =>
       /\ burst.age = Debounce
       /\ \E r \in refreshes :
            r.rid = last.rid /\ r.vec = Vector /\ r.params = Serialize(Vector)

\* the timer ran after a burst of two writes, more than 500 ms after the first
DebounceTrailing == last.type = "timerFire" /\ last.writes = 2 /\ last.span > Debounce

\* C2: right after a successful refresh response is processed the Store holds
\* the response's list and total, whatever it held before.
RefreshReplacesStore ==
  last.type = "refreshOk" =>
    documents = last.data.documents /\ totalDocuments = last.data.total

\* a response replaced a different, non-empty list while a delete was in flight
RefreshOverwrites ==
  /\ last.type = "refreshOk"
  /\ \E r \in deletes : r.documents # << >> /\ r.documents # documents
  /\ totalDocuments # Len(documents)

\* C3: right after a confirmed delete is processed its record is absent from
\* the list and the total is one less than before.
DeleteRemovesAndDecrements ==
  last.type = "deleteOk" =>
    /\ last.id \notin SeqIds(documents)
    /\ totalDocuments = last.pre.totalDocuments - 1

\* a confirmed delete of a record the list held
DeleteConfirmed == last.type = "deleteOk" /\ last.id \in SeqIds(last.pre.documents)

\* C4: a failed delete leaves list and total as they were, alerts the error
\* message and issues no further delete request.
DeleteFailureKeepsStore ==
  last.type = "deleteFail" =>
    /\ Store = last.pre
    /\ last.alert \in {<<DeleteFailedMsg>>, <<NetworkErrorMsg>>}
    /\ deletes \subseteq last.pending
    /\ Cardinality(deletes) = Cardinality(last.pending) - 1

\* a delete of a listed record failed with a non-2xx response
DeleteFailedHttp ==
  /\ last.type = "deleteFail"
  /\ last.alert = <<DeleteFailedMsg>>
  /\ last.id \in SeqIds(documents)

\* C5: two star toggles on one record, the second issued after the first was
\* confirmed, both confirmed, no refresh in between, leave the record's flag
\* as it was; and while a toggle is in flight the flag in the list is still
\* the one it had when the toggle was issued.
StarRoundTrip ==
  /\ trip.phase = 4 => HasFlag(documents, trip.id, trip.orig)
  /\ trip.phase \in {1, 3} => HasFlag(documents, trip.id, trip.old)

\* C6: opening the detail view and closing it leave list, total, filter
\* vector, loading and error as they were.
ViewIsPureRead == last.type \in {"open", "close"} => Frame = last.pre

\* the view was closed over a non-empty list
ViewClosed == last.type = "close" /\ documents # << >>

\* C7: the refresh a successful upload issues carries the filter vector that
\* is current when the upload's response is processed.
UploadRefreshesCurrentVector ==
  last.type = "uploadOk" =>
    \E r \in refreshes :
      r.rid = last.refresh /\ r.vec = Vector /\ r.params = Serialize(Vector)

\* C8: the list always equals the list of the most recent refresh response
\* with the star and delete confirmations processed since applied in order.
StoreConsistent == documents = expected

\* C9: two mutations on different records in flight together, both confirmed
\* with no refresh response in between, leave the list with both effects
\* applied, whichever is confirmed first.
CrossRecordIndependent == pair.phase = 3 => documents = pair.want

\* C10: a star request carries the negation of the flag the list holds when it
\* is issued and issuing it leaves the Store alone; a confirmation sets the
\* flag; a failure leaves the Store alone and alerts the error message.
StarAppliesOnConfirm ==
  /\ last.type = "starIssue" =>
       /\ Store = last.pre
       /\ \E r \in stars, i \in 1..Len(documents) :
            /\ r.rid = last.rid /\ r.id = last.id
            /\ documents[i]._id = last.id /\ r.starred = ~documents[i].starred
  /\ last.type = "starOk" => HasFlag(documents, last.id, last.starred)
  /\ last.type = "starFail" =>
       /\ Store = last.pre
       /\ last.alert \in {<<StarFailedMsg>>, <<NetworkErrorMsg>>}

\* a star of a listed record failed
StarFailedListed == last.type = "starFail" /\ last.id \in SeqIds(documents)

\* C11: a DELETE request is issued only by an invocation of the delete handler
\* whose confirmation gate was answered yes, one request per invocation; when
\* the gate is answered no, no request is issued and list, total, loading and
\* error stay as they were.
DeleteNeedsConfirmation ==
  [][ /\ ~(deletes' \subseteq deletes) =>
           /\ last'.type = "deleteIssue"
           /\ last'.answer
           /\ Cardinality(deletes' \ deletes) = 1
           /\ \A r \in deletes' \ deletes : r.docId = last'.id
      /\ last'.type = "deleteDeclined" =>
           /\ deletes' = deletes
           /\ refreshes' = refreshes
           /\ documents' = documents
           /\ totalDocuments' = totalDocuments
           /\ loading' = loading
           /\ error' = error ]_vars

\* the gate was answered no while another delete was in flight
DeleteDeclined == last.type = "deleteDeclined" /\ deletes # {} /\ last.id \in SeqIds(documents)

\* C12: right after a failed refresh is processed the error is set, the list
\* is empty and the total is the one from before the failure.
RefreshFailureEmptiesList ==
  last.type = "refreshFail" =>
    /\ error = FetchErrorMsg
    /\ error # NoError
    /\ documents = << >>
    /\ totalDocuments = last.total

\* a refresh failed over a Store that held records: the stale total is positive
RefreshFailedStale ==
  /\ last.type = "refreshFail"
  /\ expected = << >>
  /\ totalDocuments > 0

\* C13: right after a successful refresh response is processed the error is
\* clear, whatever set it before.
RefreshSuccessClearsError == last.type = "refreshOk" => error = NoError

\* C14: loading is true right after a refresh is issued, by the debounce timer
\* or by a successful upload, it is true while a refresh is in flight, and it
\* is false right after a refresh response is processed.
RefreshLoadingLifecycle ==
  /\ last.type \in {"timerFire", "uploadOk"} => loading
  /\ refreshes # {} => loading
  /\ last.type \in {"refreshOk", "refreshFail"} => ~loading

\* C15: loading is true while an upload is in flight, and it is false right
\* after the upload's response is processed.
UploadLoadingLifecycle ==
  /\ uploads # {} => loading
  /\ last.type \in {"uploadOk", "uploadFail"} => ~loading

\* the urlencoded parser a query string is read with: pieces between "&",
\* each cut at its first "=", "+" read as a space and %XX as the byte it names
Split(cs, sep) ==
  LET cuts == {i \in 1..Len(cs) : cs[i] = sep}
      \* the k-th piece starts after the (k-1)-th separator and ends before the k-th
      from(k) == IF k = 1 THEN 1
                 ELSE 1 + CHOOSE i \in cuts : Cardinality({j \in cuts : j < i}) = k - 2
      to(k) == IF k = Cardinality(cuts) + 1 THEN Len(cs)
               ELSE (CHOOSE i \in cuts : Cardinality({j \in cuts : j < i}) = k - 1) - 1
  IN [k \in 1..(Cardinality(cuts) + 1) |-> SubSeq(cs, from(k), to(k))]

Unescape(h, l) ==
  CASE <<h, l>> = <<"2", "6">> -> "&"
    [] <<h, l>> = <<"3", "D">> -> "="
    [] <<h, l>> = <<"2", "B">> -> "+"
    [] <<h, l>> = <<"2", "5">> -> "%"
    [] <<h, l>> = <<"2", "0">> -> " "
    [] OTHER -> "?"

RECURSIVE UrlDecode(_)
UrlDecode(cs) ==
  IF cs = << >> THEN << >>
  ELSE IF Head(cs) = "+" THEN <<" ">> \o UrlDecode(Tail(cs))
  ELSE IF Head(cs) = "%" /\ Len(cs) >= 3
       THEN <<Unescape(cs[2], cs[3])>> \o UrlDecode(SubSeq(cs, 4, Len(cs)))
  ELSE <<Head(cs)>> \o UrlDecode(Tail(cs))

\* the name/value pairs, as character sequences, a query string is read as
ParseQuery(cs) ==
  LET pieces == Split(cs, "&")
      cut(piece) == LET nv == Split(piece, "=")
                    IN <<UrlDecode(Head(nv)),
                         UrlDecode(IF Len(nv) > 1 THEN nv[2] ELSE << >>)>>
  IN {cut(pieces[i]) : i \in {j \in 1..Len(pieces) : pieces[j] # << >>}}

\* the values the parsed request gives for one parameter name
ValuesOf(r, name) == {nv[2] : nv \in {x \in ParseQuery(r.url) : x[1] = Chars(name)}}

\* C16: a refresh request carries the search parameter iff the query is not
\* the empty string, the department parameter iff the department is not
\* "all", the type parameter iff the type is not "all-types"; a parameter that
\* is present reads back as the axis value, and there is no other parameter.
RequestSerialization ==
  \A r \in refreshes :
    /\ ValuesOf(r, "search") = IF r.vec.query # "" THEN {Chars(r.vec.query)} ELSE {}
    /\ ValuesOf(r, "department") =
         IF r.vec.department # "all" THEN {Chars(r.vec.department)} ELSE {}
    /\ ValuesOf(r, "type") = IF r.vec.type # "all-types" THEN {Chars(r.vec.type)} ELSE {}
    /\ \A nv \in ParseQuery(r.url) :
         nv[1] \in {Chars("search"), Chars("department"), Chars("type")}
    /\ Len(Split(r.url, "&")) = Len(r.params)
         + (IF r.params = << >> THEN 1 ELSE 0)

\* a request in flight for a query with reserved characters, one axis
\* constrained and one not
SerializedMixed ==
  \E r \in refreshes :
    r.vec = [query |-> "r & d", department |-> "all", type |-> "invoice"]

\* C17: the total changes in two ways only: a successful refresh sets it to
\* the response's total and a confirmed delete lowers it by exactly one; every
\* other step leaves it as it was, so only a refresh can raise it.
TotalWrittenByRefreshAndDelete ==
  [][ /\ last'.type = "refreshOk" => totalDocuments' = last'.data.total
      /\ last'.type = "deleteOk" => totalDocuments' = totalDocuments - 1
      /\ last'.type \notin {"refreshOk", "deleteOk"} => totalDocuments' = totalDocuments
      /\ totalDocuments' > totalDocuments => last'.type = "refreshOk" ]_vars

\* an upload response was processed over a positive total
UploadOverTotal == last.type = "uploadOk" /\ totalDocuments > 0

\* C18: every response has a total not below the length of its list, and in
\* every state the list is not longer than the total.
CountInvariant ==
  /\ \A data \in Responses : data.total >= Len(data.documents)
  /\ 0 <= Len(documents)
  /\ Len(documents) <= totalDocuments

\* C19: processing an upload response, success or failure, leaves list and
\* total as they were; a failure sets the error to a message that ends with
\* the error text the server reported or, when it reported none, with a
\* generic text (the handler's for a non-2xx response, the runtime's for a
\* request that never got a response), and issues no refresh.
UploadNeverWritesStore ==
  /\ last.type \in {"uploadOk", "uploadFail"} => Store = last.pre
  /\ last.type = "uploadFail" =>
       /\ refreshes = last.pending
       /\ error # NoError
       /\ error = last.alert
       /\ error[1] = "File upload failed: "
       /\ error[2] = IF last.text # "" THEN last.text
                     ELSE IF last.kind = "http" THEN UploadFailedMsg ELSE NetworkErrorMsg

\* an upload failed with an error text from the server, over a non-empty list
UploadFailedWithText ==
  /\ last.type = "uploadFail"
  /\ last.text \in ServerErrors \ {""}
  /\ documents # << >>

\* C20: the inspection target is always none or one record; opening a record
\* sets the target to it, whether or not one was open; closing sets it to
\* none; no other step writes it.
DetailViewStateMachine ==
  [][ /\ viewingDocument' \in {NoDoc} \cup {Doc(id, b) : id \in Ids, b \in BOOLEAN}
      /\ last'.type = "open" => viewingDocument' = last'.doc /\ viewingDocument' # NoDoc
      /\ last'.type = "close" => viewingDocument' = NoDoc
      /\ last'.type \notin {"open", "close"} => viewingDocument' = viewingDocument ]_vars

\* a second record was opened while another one was open
ViewReplaced ==
  /\ last.type = "open"
  /\ last.was \in Ids \ {last.id}
  /\ viewingDocument._id = last.id

\* C21: the inspection target is always none or a record that is an element
\* of the current list, with the same field values.
TargetInList ==
  viewingDocument = NoDoc \/ \E i \in 1..Len(documents) : documents[i] = viewingDocument

\* number of requests in flight
InFlight ==
  Cardinality(refreshes) + Cardinality(uploads) + Cardinality(deletes) + Cardinality(stars)

\* C22: the timer, a star click, a confirmed delete click and a file selection
\* each issue exactly one request; a successful upload response issues one
\* refresh; every other response, failed ones included, issues no request and
\* schedules no timer; no other step issues a request.
NoAutomaticRetry ==
  [][ LET t == last'.type
          fewer(S, T) == T \subseteq S /\ Cardinality(T) = Cardinality(S) - 1
          more(S, T) == S \subseteq T /\ Cardinality(T) = Cardinality(S) + 1
      IN /\ t \in {"refreshOk", "refreshFail"} =>
              fewer(refreshes, refreshes') /\ UNCHANGED <<uploads, deletes, stars, timers>>
         /\ t \in {"starOk", "starFail"} =>
              fewer(stars, stars') /\ UNCHANGED <<refreshes, uploads, deletes, timers>>
         /\ t \in {"deleteOk", "deleteFail"} =>
              fewer(deletes, deletes') /\ UNCHANGED <<refreshes, uploads, stars, timers>>
         /\ t = "uploadFail" =>
              fewer(uploads, uploads') /\ UNCHANGED <<refreshes, deletes, stars, timers>>
         /\ t = "uploadOk" =>
              /\ fewer(uploads, uploads') /\ more(refreshes, refreshes')
              /\ UNCHANGED <<deletes, stars, timers>>
         /\ t = "timerFire" =>
              more(refreshes, refreshes') /\ UNCHANGED <<uploads, deletes, stars>>
         /\ t = "starIssue" =>
              more(stars, stars') /\ UNCHANGED <<refreshes, uploads, deletes>>
         /\ t = "deleteIssue" =>
              more(deletes, deletes') /\ UNCHANGED <<refreshes, uploads, stars>>
         /\ t = "uploadIssue" =>
              more(uploads, uploads') /\ UNCHANGED <<refreshes, deletes, stars>>
         /\ t \in {"write", "tick", "open", "close", "deleteDeclined", "uploadNoFile",
                   "semanticBlank", "semanticIssue", "semanticOk", "semanticFail", "tab"} =>
              UNCHANGED flight ]_vars

\* a refresh failed and nothing is in flight or scheduled afterwards
FailedAndQuiet == last.type = "refreshFail" /\ InFlight = 0 /\ timers = {}

\* C23: at most one upload is in flight at any time.
AtMostOneUpload == Cardinality(uploads) <= 1

\* C24: starting a semantic search and processing its response leave the
\* filter vector, list, total, shared loading flag, shared error, debounce
\* timer and refresh requests as they were, and the search request is in
\* flight right after the search is started.
SemanticSearchIndependent ==
  /\ last.type \in {"semanticBlank", "semanticIssue", "semanticOk", "semanticFail"} =>
       Pipeline = last.pre
  /\ last.type = "semanticIssue" =>
       \E r \in semantic.flight : r.rid = last.rid /\ r.live /\ Trimmed(r.query) # ""

\* a search delivered its results while a debounce timer was pending over a
\* non-empty list
SemanticDelivered ==
  /\ last.type = "semanticOk"
  /\ semantic.local.results # << >>
  /\ timers # {}
  /\ documents # << >>

\* nothing scheduled and nothing in flight
Quiet == timers = {} /\ InFlight = 0

\* C25: when every timer runs and every request is answered with success,
\* the program ends up, once the user has stopped, with nothing in flight and
\* the list being the one fetched for the final filter vector.
ConvergesToVector == <>[](Quiet /\ source = Vector)

\* C26: a filter write, which cancels the debounce timer, leaves the refresh
\* requests in flight as they are; every successful refresh response replaces
\* list and total when it is processed, whatever vector its request was built
\* from and whatever was stored before, so the Store holds the response that
\* arrived last.
NoStaleDiscard ==
  /\ last.type = "write" => refreshes = last.pending
  /\ last.type = "refreshOk" =>
       /\ Store = [documents |-> last.data.documents, totalDocuments |-> last.data.total]
       /\ source = last.vec

\* the Store held the response for the current vector; the response of a
\* timer refresh for an older vector arrived last and replaced it with a
\* different list, and nothing is in flight or scheduled any more
StaleResponseWins ==
  /\ last.type = "refreshOk"
  /\ last.by = "timer"
  /\ last.vec # Vector
  /\ last.over = Vector
  /\ refreshes = {} /\ timers = {}
  /\ documents # << >>

\* the records of a list
Records(s) == {s[i] : i \in 1..Len(s)}

\* C27: the confirmation of a star or delete that a successful refresh
\* response overtook puts no record into the list that was not there right
\* before it, and changes no record other than its own target.
RefreshAuthoritative ==
  [][ ( \/ last'.type = "deleteOk" /\ <<"delete", last'.rid>> \in crossed
        \/ last'.type = "starOk" /\ <<"star", last'.rid>> \in crossed ) =>
      /\ SeqIds(documents') \subseteq SeqIds(documents)
      /\ \A d \in Records(documents') : d._id # last'.id => d \in Records(documents) ]_vars

\* C28: every refresh request carries the three axis values of one state: a
\* pending timer holds the vector of the write that scheduled it, which is the
\* current one; the request the timer issues carries the timer's vector; an
\* upload holds the vector of the state it was started in and its refresh
\* carries that vector; parameters and query string are built from the one
\* vector the request carries.
ConsistentSnapshot ==
  /\ \A t \in timers : t.vec = Vector
  /\ \A r \in refreshes :
       r.params = Serialize(r.vec) /\ r.url = QueryString(Serialize(r.vec))
  /\ last.type = "write" => timers = {[elapsed |-> 0, vec |-> Vector]}
  /\ last.type = "timerFire" =>
       \E r \in refreshes : r.rid = last.rid /\ r.by = "timer" /\ r.vec = last.scheduled
  /\ last.type = "uploadIssue" => \E u \in uploads : u.rid = last.rid /\ u.vec = Vector
  /\ last.type = "uploadOk" =>
       \E r \in refreshes : r.rid = last.refresh /\ r.by = "upload" /\ r.vec = last.started

\* an upload's refresh was issued for the vector of the upload's start after
\* two axes had been written during the upload
SnapshotOfUploadStart ==
  /\ last.type = "uploadOk"
  /\ last.started.query # Vector.query
  /\ last.started.department # Vector.department

\* C29: a star confirmation keeps the length of the list, its identifiers
\* and their order, sets the starred flag of the record with the request's
\* identifier and leaves every other field and record, and the total, as they
\* were; when the list holds no such record the Store stays as it was.
StarConfirmationFrame ==
  [][ last'.type = "starOk" =>
      /\ Len(documents') = Len(documents)
      /\ \A i \in 1..Len(documents) :
           documents'[i] = IF documents[i]._id = last'.id
                           THEN [documents[i] EXCEPT !.starred = last'.starred]
                           ELSE documents[i]
      /\ totalDocuments' = totalDocuments
      /\ last'.id \notin SeqIds(documents) =>
           documents' = documents /\ last'.id \notin SeqIds(documents') ]_vars

\* a star was confirmed for a record the list no longer holds
StarOfMissingRecord ==
  /\ last.type = "starOk"
  /\ last.id \notin SeqIds(documents)
  /\ documents # << >>

\* C30: right after a delete confirmation is processed the list is the list
\* from right before it without the deleted record: the other records are
\* still there, unchanged and in the same order, and none was added.
DeleteRemovesOnlyTarget ==
  last.type = "deleteOk" => documents = FilterOut(last.pre.documents, last.id)

LoadingQuiescence ==
  /\ [](refreshes = {} /\ uploads = {} /\ loaded => ~loading)
  /\ (loading ~> ~loading)

\* the last request in flight was just answered and loading went off
LoadingSettled ==
  /\ last.type \in {"refreshOk", "refreshFail"}
  /\ refreshes = {} /\ uploads = {}
  /\ loaded /\ ~loading

\* no filter write and no timer callback has happened since the mount
InitialPending == burst.writes = 0 /\ burst.refreshes = 0

\* the refresh requests in flight that a timer issued
TimerRequests == {r \in refreshes : r.by = "timer"}

\* C33: the program starts loading, with an empty list, total 0, no error,
\* the unconstrained vector and one timer scheduled for it; while neither a
\* write nor the timer has happened that timer is the only one and no timer
\* request is in flight; when it runs, 500 ms after the mount, it issues one
\* request with no filter parameter; a filter write that comes first replaces
\* it by a timer for the new vector and issues nothing.
InitialLoad ==
  /\ [](last.type = "mount" =>
          /\ loading /\ documents = << >> /\ totalDocuments = 0 /\ error = NoError
          /\ Vector = Unconstrained
          /\ timers = {[elapsed |-> 0, vec |-> Unconstrained]}
          /\ InFlight = 0)
  /\ [](InitialPending =>
          /\ Vector = Unconstrained
          /\ timers = {[elapsed |-> burst.age, vec |-> Unconstrained]}
          /\ TimerRequests = {})
  /\ [][ InitialPending /\ last'.type = "timerFire" =>
            /\ burst.age = Debounce
            /\ timers' = {}
            /\ \E r \in refreshes' :
                 /\ TimerRequests' = {r}
                 /\ r.rid = last'.rid /\ r.vec = Unconstrained
                 /\ r.params = << >> /\ r.url = << >> ]_vars
  /\ [][ InitialPending /\ last'.type = "write" =>
            /\ Vector' # Unconstrained
            /\ timers' = {[elapsed |-> 0, vec |-> Vector']}
            /\ refreshes' = refreshes /\ TimerRequests' = {} ]_vars

\* the initial timer ran with no write before it and its request is in flight
InitialRefreshIssued ==
  /\ last.type = "timerFire" /\ last.writes = 0
  /\ last.scheduled = Unconstrained
  /\ \E r \in refreshes : r.rid = last.rid /\ r.url = << >>

\* C34: a star click, a delete click (confirmed or declined) and an opening of
\* the detail view are steps from a state with loading false, no error and
\* the target record in the list; the star or delete request put in flight
\* names that record.
MutationGating ==
  [][ last'.type \in {"starIssue", "deleteIssue", "deleteDeclined", "open"} =>
        /\ ~loading /\ error = NoError
        /\ last'.id \in SeqIds(documents)
        /\ last'.type = "starIssue" =>
             \E r \in stars' \ stars : r.rid = last'.rid /\ r.id = last'.id
        /\ last'.type = "deleteIssue" =>
             \E r \in deletes' \ deletes : r.rid = last'.rid /\ r.docId = last'.id ]_vars

\* a delete request was issued for a record of the list shown
GatedDeleteIssued ==
  /\ last.type = "deleteIssue"
  /\ ~loading /\ error = NoError
  /\ last.id \in SeqIds(documents)
  /\ \E r \in deletes : r.rid = last.rid /\ r.docId = last.id
====
